---- MODULE Spec2Model ----
(***************************************************************************)
(* Model of simulador_io.py: the interrupt queue and context store of      *)
(* GerenciadorInterrupcoes and the per-tick scheduler of SimuladorIO.      *)
(*                                                                         *)
(* Three specifications share the variables:                               *)
(*   SpecFila      arbitrary adicionar_interrupcao / proximo_interrupcao   *)
(*                 calls on a GerenciadorInterrupcoes;                     *)
(*   SpecContexto  arbitrary salvar_contexto / restaurar_contexto calls;   *)
(*   Spec          SimuladorIO.executar: one processar_ciclo per tick.     *)
(***************************************************************************)
EXTENDS Integers, Sequences, FiniteSets

VARIABLES
    fila,                       \* GerenciadorInterrupcoes.fila
    contexto_salvo,             \* GerenciadorInterrupcoes.contexto_salvo
    retorno,                    \* last direct call on the manager and its result
    tempo,                      \* SimuladorIO.tempo
    tempo_total,                \* SimuladorIO.tempo_total
    prob_interrupcao,           \* SimuladorIO.prob_interrupcao, in percent
    tempo_restante_tratamento,  \* SimuladorIO.tempo_restante_tratamento
    interrupcao_atual,          \* SimuladorIO.interrupcao_atual
    endereco_pc,                \* SimuladorIO.endereco_pc
    ciclos_execucao_normal,     \* SimuladorIO.ciclos_execucao_normal
    estatisticas,               \* SimuladorIO.estatisticas
    log,                        \* events appended to SimuladorIO.log by the latest step
    dispositivos_ativados,      \* processar_ciclo's local of the latest step
    fase                        \* position of executar: "init", "laco", "fim"

vars == <<fila, contexto_salvo, retorno, tempo, tempo_total, prob_interrupcao,
          tempo_restante_tratamento, interrupcao_atual, endereco_pc,
          ciclos_execucao_normal, estatisticas, log, dispositivos_ativados, fase>>

\* Bounds of the model.
MaxTick == 2
MaxFila == 2
MaxPc == 9
TempoTotal == 6

\* Python's None.
None == [none |-> TRUE]

----------------------------------------------------------------------------
\* Prioridade, Dispositivo, Interrupcao

ALTA == 1
MEDIA == 2
BAIXA == 3

TipoPrioridade(prioridade) ==
    IF prioridade = ALTA THEN "Alta"
    ELSE IF prioridade = MEDIA THEN "Media" ELSE "Baixa"

Dispositivo(nome, prioridade) ==
    [nome |-> nome, prioridade |-> prioridade,
     tipo_prioridade |-> TipoPrioridade(prioridade)]

DISPOSITIVOS ==
    << Dispositivo("Teclado", ALTA),
       Dispositivo("Impressora", MEDIA),
       Dispositivo("Disco", BAIXA) >>

Interrupcao(prioridade, tempo_chegada, nome_dispositivo, tipo_prioridade) ==
    [prioridade |-> prioridade, tempo_chegada |-> tempo_chegada,
     nome_dispositivo |-> nome_dispositivo, tipo_prioridade |-> tipo_prioridade]

LtSoPrioridade(self, outro) ==
    self.prioridade < outro.prioridade

\* Interrupcao.__lt__
Lt(self, outro) ==
    IF self.prioridade # outro.prioridade
    THEN self.prioridade < outro.prioridade
    ELSE self.tempo_chegada < outro.tempo_chegada

----------------------------------------------------------------------------
\* list.sort(): a stable sort that compares with __lt__ only.

\* x goes before the first element it is less than, after every other one.
RECURSIVE InsereOrdenado(_, _)
InsereOrdenado(x, s) ==
    IF s = <<>> THEN <<x>>
    ELSE IF Lt(x, Head(s)) THEN <<x>> \o s
    ELSE <<Head(s)>> \o InsereOrdenado(x, Tail(s))

RECURSIVE Sort(_)
Sort(s) ==
    IF s = <<>> THEN <<>>
    ELSE InsereOrdenado(s[Len(s)], Sort(SubSeq(s, 1, Len(s) - 1)))

----------------------------------------------------------------------------
\* GerenciadorInterrupcoes: the queue

JaExisteSoNome(f, t, dispositivo) ==
    \E i \in 1..Len(f) : f[i].nome_dispositivo = dispositivo.nome

\* the any(...) of adicionar_interrupcao
JaExiste(f, t, dispositivo) ==
    \E i \in 1..Len(f) :
        f[i].nome_dispositivo = dispositivo.nome /\ f[i].tempo_chegada = t

adicionar_sem_ordenar(f, t, dispositivo) ==
    IF JaExiste(f, t, dispositivo)
    THEN [fila |-> f, valor |-> FALSE]
    ELSE [fila |-> Append(f, Interrupcao(dispositivo.prioridade, t,
                              dispositivo.nome, dispositivo.tipo_prioridade)),
          valor |-> TRUE]

\* adicionar_interrupcao(tempo, dispositivo): the queue after the call and
\* the value returned.
adicionar_interrupcao(f, t, dispositivo) ==
    IF JaExiste(f, t, dispositivo)
    THEN [fila |-> f, valor |-> FALSE]
    ELSE [fila |-> Sort(Append(f, Interrupcao(dispositivo.prioridade, t,
                              dispositivo.nome, dispositivo.tipo_prioridade))),
          valor |-> TRUE]

proximo_do_fim(f) ==
    IF f # <<>>
    THEN [fila |-> SubSeq(f, 1, Len(f) - 1), valor |-> f[Len(f)]]
    ELSE [fila |-> f, valor |-> None]

proximo_sem_remover(f) ==
    IF f # <<>>
    THEN [fila |-> f, valor |-> Head(f)]
    ELSE [fila |-> f, valor |-> None]

\* proximo_interrupcao(): the queue after the call and the value returned.
proximo_interrupcao(f) ==
    IF f # <<>>
    THEN [fila |-> Tail(f), valor |-> Head(f)]
    ELSE [fila |-> f, valor |-> None]

\* tem_interrupcoes_pendentes()
tem_interrupcoes_pendentes(f) == Len(f) > 0

----------------------------------------------------------------------------
\* GerenciadorInterrupcoes: the context store

salvar_contexto_trocado(ctx, t, pc) ==
    [contexto_salvo |->
        [tempo_interrupcao |-> pc, pc |-> t,
         registradores |-> [A |-> 0, B |-> 0, C |-> 0], status |-> "salvo"],
     valor |-> None,
     excecao |-> FALSE]

\* salvar_contexto(tempo, endereco_pc): the slot after the call, the value
\* returned and whether the call raised.  The body is one assignment: it
\* does not look at the slot and has no raise.
salvar_contexto(ctx, t, pc) ==
    [contexto_salvo |->
        [tempo_interrupcao |-> t, pc |-> pc,
         registradores |-> [A |-> 0, B |-> 0, C |-> 0], status |-> "salvo"],
     valor |-> None,
     excecao |-> FALSE]

\* restaurar_contexto(): the slot after the call, the value returned and
\* whether the call raised.  On an empty slot "if contexto" is false and the
\* method returns the None it read.
restaurar_contexto(ctx) ==
    [contexto_salvo |-> None,
     valor |-> IF ctx # None THEN [ctx EXCEPT !.status = "restaurado"] ELSE ctx,
     excecao |-> FALSE]

----------------------------------------------------------------------------
\* State after construction (GerenciadorInterrupcoes.__init__ and
\* SimuladorIO.__init__).

NomesEstatisticas ==
    {"Teclado", "Impressora", "Disco", "total_interrupcoes",
     "tempo_total_tratamento", "ciclos_execucao_normal", "casos_prioridade_testados"}

Init ==
    /\ fila = <<>>
    /\ contexto_salvo = None
    /\ retorno = [op |-> "nenhuma", args |-> <<>>, valor |-> None, excecao |-> FALSE]
    /\ tempo = 0
    /\ tempo_total = TempoTotal
    /\ prob_interrupcao = 25
    /\ tempo_restante_tratamento = 0
    /\ interrupcao_atual = None
    /\ endereco_pc = 0
    /\ ciclos_execucao_normal = 0
    /\ estatisticas = [n \in NomesEstatisticas |-> 0]
    /\ log = <<>>
    /\ dispositivos_ativados = <<>>
    /\ fase = "init"

SimuladorVars == <<tempo, tempo_total, prob_interrupcao, tempo_restante_tratamento,
                   interrupcao_atual, endereco_pc, ciclos_execucao_normal,
                   estatisticas, log, dispositivos_ativados, fase>>

----------------------------------------------------------------------------
\* Direct calls on the queue.

ChamaAdicionar ==
    \E t \in 0..MaxTick, d \in 1..Len(DISPOSITIVOS) :
        LET r == adicionar_interrupcao(fila, t, DISPOSITIVOS[d]) IN
        /\ fila' = r.fila
        /\ retorno' = [op |-> "adicionar_interrupcao",
                       args |-> <<t, DISPOSITIVOS[d].nome>>, valor |-> r.valor,
                       excecao |-> FALSE]
        /\ UNCHANGED <<contexto_salvo, SimuladorVars>>

ChamaProximo ==
    LET r == proximo_interrupcao(fila) IN
    /\ fila' = r.fila
    /\ retorno' = [op |-> "proximo_interrupcao", args |-> <<>>, valor |-> r.valor,
                   excecao |-> FALSE]
    /\ UNCHANGED <<contexto_salvo, SimuladorVars>>

NextFila == ChamaAdicionar \/ ChamaProximo

SpecFila == Init /\ [][NextFila]_vars

----------------------------------------------------------------------------
\* Direct calls on the context store.

ChamaSalvar ==
    \E t \in 0..MaxPc, pc \in 0..MaxPc :
        LET r == salvar_contexto(contexto_salvo, t, pc) IN
        /\ contexto_salvo' = r.contexto_salvo
        /\ retorno' = [op |-> "salvar_contexto", args |-> <<t, pc>>, valor |-> r.valor,
                       excecao |-> r.excecao]
        /\ UNCHANGED <<fila, SimuladorVars>>

ChamaRestaurar ==
    LET r == restaurar_contexto(contexto_salvo) IN
    /\ contexto_salvo' = r.contexto_salvo
    /\ retorno' = [op |-> "restaurar_contexto", args |-> <<>>, valor |-> r.valor,
                   excecao |-> r.excecao]
    /\ UNCHANGED <<fila, SimuladorVars>>

NextContexto == ChamaSalvar \/ ChamaRestaurar

SpecContexto == Init /\ [][NextContexto]_vars

----------------------------------------------------------------------------
\* Properties of the queue (SpecFila)

\* (priority rank, arrival tick) of a is lexicographically at most that of b.
LexLeq(a, b) ==
    \/ a.prioridade < b.prioridade
    \/ a.prioridade = b.prioridade /\ a.tempo_chegada <= b.tempo_chegada

Ordenada(f) == \A i \in 1..(Len(f) - 1) : LexLeq(f[i], f[i + 1])

RemoveAt(f, i) == SubSeq(f, 1, i - 1) \o SubSeq(f, i + 1, Len(f))

Pendente(f, t, nome) ==
    \E i \in 1..Len(f) : f[i].nome_dispositivo = nome /\ f[i].tempo_chegada = t

\* C1: every proximo_interrupcao call on a non-empty queue returns a record
\* that was pending, whose (priority rank, arrival tick) is lexicographically
\* minimal among the records pending just before the call (so that of two
\* pending records of equal rank the earlier arrival is returned first), and
\* removes that record and no other.
C1_PopMinimo ==
    [][ (retorno'.op = "proximo_interrupcao" /\ fila # <<>>) =>
          /\ \A i \in 1..Len(fila) : LexLeq(retorno'.valor, fila[i])
          /\ \E i \in 1..Len(fila) :
                fila[i] = retorno'.valor /\ fila' = RemoveAt(fila, i) ]_vars

\* A pop has returned a record while a record of the same rank that arrived
\* later is still pending.
C1_Witness ==
    /\ retorno.op = "proximo_interrupcao"
    /\ retorno.valor # None
    /\ \E i \in 1..Len(fila) :
          /\ fila[i].prioridade = retorno.valor.prioridade
          /\ fila[i].tempo_chegada > retorno.valor.tempo_chegada

\* C2: in every state reached by admissions (accepted or rejected) and pops,
\* fila is sorted by (priority rank ascending, arrival tick ascending).
C2_FilaOrdenada == Ordenada(fila)

\* A rejected admission with a queue that holds both two records of one rank
\* and records of different ranks.
C2_Witness ==
    /\ retorno.op = "adicionar_interrupcao"
    /\ retorno.valor = FALSE
    /\ \E i \in 1..(Len(fila) - 1) :
          /\ fila[i].prioridade = fila[i + 1].prioridade
          /\ fila[i].tempo_chegada < fila[i + 1].tempo_chegada
    /\ \E i \in 1..(Len(fila) - 1) : fila[i].prioridade < fila[i + 1].prioridade

SemDuplicata(f) ==
    \A i, j \in 1..Len(f) :
        (f[i].nome_dispositivo = f[j].nome_dispositivo
            /\ f[i].tempo_chegada = f[j].tempo_chegada) => i = j

\* C3: no two pending records share (device, arrival tick); admitting (D, T)
\* while a record (D, T) is pending returns False and leaves the queue as it
\* was; admitting it otherwise returns True and adds exactly one record, for
\* (D, T), keeping the other records in their order.
C3_SemDuplicata ==
    /\ []SemDuplicata(fila)
    /\ [][ retorno'.op = "adicionar_interrupcao" =>
            LET t == retorno'.args[1]
                nome == retorno'.args[2] IN
            IF Pendente(fila, t, nome)
            THEN retorno'.valor = FALSE /\ fila' = fila
            ELSE /\ retorno'.valor = TRUE
                 /\ Len(fila') = Len(fila) + 1
                 /\ \E i \in 1..Len(fila') :
                       /\ fila'[i].nome_dispositivo = nome
                       /\ fila'[i].tempo_chegada = t
                       /\ RemoveAt(fila', i) = fila ]_vars

\* A rejected admission: the record for its (device, tick) is pending beside
\* another record of the same device.
C3_Witness ==
    /\ retorno.op = "adicionar_interrupcao"
    /\ retorno.valor = FALSE
    /\ Pendente(fila, retorno.args[1], retorno.args[2])
    /\ \E i \in 1..Len(fila) :
          /\ fila[i].nome_dispositivo = retorno.args[2]
          /\ fila[i].tempo_chegada # retorno.args[1]

----------------------------------------------------------------------------
\* Properties of the context store (SpecContexto)

\* C4: a salvar_contexto call made while a context is stored fails, and the
\* stored context is not replaced.
C4_SalvarFalhaSeOcupado ==
    [][ (retorno'.op = "salvar_contexto" /\ contexto_salvo # None) =>
          (retorno'.excecao /\ contexto_salvo' = contexto_salvo) ]_vars

\* C5: a restaurar_contexto call made while no context is stored fails; it
\* does not return normally.
C5_RestaurarFalhaSeVazio ==
    [][ (retorno'.op = "restaurar_contexto" /\ contexto_salvo = None) =>
          retorno'.excecao ]_vars

----------------------------------------------------------------------------
\* SimuladorIO

\* random.randint(2, 4)
DuracaoMin == 2
DuracaoMax == 4

SorteioInclusivo(prob) ==
    IF prob < 0 THEN {FALSE} ELSE IF prob >= 100 THEN {TRUE} ELSE BOOLEAN

\* Outcomes of "random.random() < prob_interrupcao" that can happen.
Sorteio(prob) ==
    IF prob <= 0 THEN {FALSE} ELSE IF prob >= 100 THEN {TRUE} ELSE BOOLEAN

\* The simulator's fields as one record, the argument and result of the
\* operators below; dispositivos_ativados is processar_ciclo's local.
Estado ==
    [fila |-> fila, contexto_salvo |-> contexto_salvo, tempo |-> tempo,
     tempo_restante_tratamento |-> tempo_restante_tratamento,
     interrupcao_atual |-> interrupcao_atual, endereco_pc |-> endereco_pc,
     ciclos_execucao_normal |-> ciclos_execucao_normal,
     estatisticas |-> estatisticas, log |-> log,
     dispositivos_ativados |-> dispositivos_ativados]

\* registrar_evento: the message carries the tick; tipo stands for the
\* text's marker, disp and num for the values formatted into it.
registrar_evento(s, tipo, disp, num) ==
    [s EXCEPT !.log = Append(@, [tempo |-> s.tempo, tipo |-> tipo,
                                 disp |-> disp, num |-> num])]

\* The loop of gerar_interrupcoes from device i on; sorteios[i] is the
\* outcome of the random test for DISPOSITIVOS[i].
RECURSIVE GerarDesde(_, _, _)
GerarDesde(s, sorteios, i) ==
    IF i > Len(DISPOSITIVOS) THEN s
    ELSE IF sorteios[i]
         THEN LET r == adicionar_interrupcao(s.fila, s.tempo, DISPOSITIVOS[i]) IN
              GerarDesde([s EXCEPT !.fila = r.fila,
                                   !.dispositivos_ativados =
                                       IF r.valor THEN Append(@, DISPOSITIVOS[i].nome)
                                       ELSE @],
                         sorteios, i + 1)
         ELSE GerarDesde(s, sorteios, i + 1)

\* gerar_interrupcoes()
gerar_interrupcoes(s, sorteios) ==
    GerarDesde([s EXCEPT !.dispositivos_ativados = <<>>], sorteios, 1)

FaseChegadaSoOcioso(s, sorteios) ==
    LET s1 == gerar_interrupcoes(s, sorteios)
        n == Len(s1.dispositivos_ativados) IN
    IF n > 1 /\ s1.tempo_restante_tratamento = 0
    THEN [registrar_evento(s1, "MULTIPLAS", s1.dispositivos_ativados, 0)
            EXCEPT !.estatisticas["casos_prioridade_testados"] = @ + 1]
    ELSE IF n = 1 /\ tem_interrupcoes_pendentes(s1.fila)
                  /\ s1.tempo_restante_tratamento = 0
         THEN registrar_evento(s1, "ADICIONADA", <<s1.dispositivos_ativados[1]>>, 0)
         ELSE s1

\* processar_ciclo, step 1: arrivals and their report.
FaseChegada(s, sorteios) ==
    LET s1 == gerar_interrupcoes(s, sorteios)
        n == Len(s1.dispositivos_ativados) IN
    IF n > 1
    THEN [registrar_evento(s1, "MULTIPLAS", s1.dispositivos_ativados, 0)
            EXCEPT !.estatisticas["casos_prioridade_testados"] = @ + 1]
    ELSE IF n = 1 /\ tem_interrupcoes_pendentes(s1.fila)
                  /\ s1.tempo_restante_tratamento = 0
         THEN registrar_evento(s1, "ADICIONADA", <<s1.dispositivos_ativados[1]>>, 0)
         ELSE s1

FaseTratamentoSemRestaurar(s) ==
    LET s1 == registrar_evento(s, "CONTINUANDO", <<s.interrupcao_atual.nome>>,
                               s.tempo_restante_tratamento)
        s2 == [s1 EXCEPT !.tempo_restante_tratamento = @ - 1] IN
    IF s2.tempo_restante_tratamento = 0
    THEN LET ctx == s2.contexto_salvo
             s4 == registrar_evento(s2, "OK", <<>>, ctx.pc)
             s5 == registrar_evento(s4, "RETOMADO", <<>>, ctx.pc + 1) IN
         [s5 EXCEPT !.interrupcao_atual = None]
    ELSE s2

FaseTratamentoPreemptivo(s) ==
    LET s1 == registrar_evento(s, "CONTINUANDO", <<s.interrupcao_atual.nome>>,
                               s.tempo_restante_tratamento)
        s2 == [s1 EXCEPT !.tempo_restante_tratamento = @ - 1] IN
    IF s2.tempo_restante_tratamento = 0
    THEN LET r == restaurar_contexto(s2.contexto_salvo)
             ctx == r.valor
             s3 == [s2 EXCEPT !.contexto_salvo = r.contexto_salvo]
             s4 == registrar_evento(s3, "OK", <<>>, ctx.pc)
             s5 == registrar_evento(s4, "RETOMADO", <<>>, ctx.pc + 1) IN
         [s5 EXCEPT !.interrupcao_atual = None]
    ELSE IF s2.fila # <<>>
         THEN [s2 EXCEPT !.interrupcao_atual =
                             [nome |-> Head(s2.fila).nome_dispositivo,
                              prioridade |-> Head(s2.fila).tipo_prioridade,
                              tempo_chegada |-> Head(s2.fila).tempo_chegada],
                         !.fila = Tail(@)]
         ELSE s2

FaseTratamentoSemLimpar(s) ==
    LET s1 == registrar_evento(s, "CONTINUANDO", <<s.interrupcao_atual.nome>>,
                               s.tempo_restante_tratamento)
        s2 == [s1 EXCEPT !.tempo_restante_tratamento = @ - 1] IN
    IF s2.tempo_restante_tratamento = 0
    THEN LET r == restaurar_contexto(s2.contexto_salvo)
             ctx == r.valor
             s3 == [s2 EXCEPT !.contexto_salvo = r.contexto_salvo]
             s4 == registrar_evento(s3, "OK", <<>>, ctx.pc) IN
         registrar_evento(s4, "RETOMADO", <<>>, ctx.pc + 1)
    ELSE s2

\* processar_ciclo, step 2: the branch taken while a service is in progress.
FaseTratamento(s) ==
    LET s1 == registrar_evento(s, "CONTINUANDO", <<s.interrupcao_atual.nome>>,
                               s.tempo_restante_tratamento)
        s2 == [s1 EXCEPT !.tempo_restante_tratamento = @ - 1] IN
    IF s2.tempo_restante_tratamento = 0
    THEN LET r == restaurar_contexto(s2.contexto_salvo)
             ctx == r.valor
             s3 == [s2 EXCEPT !.contexto_salvo = r.contexto_salvo]
             s4 == registrar_evento(s3, "OK", <<>>, ctx.pc)
             s5 == registrar_evento(s4, "RETOMADO", <<>>, ctx.pc + 1) IN
         [s5 EXCEPT !.interrupcao_atual = None]
    ELSE s2

latencia_invertida(t, proxima) == proxima.tempo_chegada - t

\* latencia = self.tempo - proxima.tempo_chegada
latencia(t, proxima) == t - proxima.tempo_chegada

IniciarTratamentoEstatisticaAntes(s, proxima, duracao) ==
    LET s1 == [s EXCEPT !.estatisticas[proxima.nome_dispositivo] = @ + 1,
                        !.estatisticas["total_interrupcoes"] = @ + 1]
        s2 == [s1 EXCEPT !.contexto_salvo =
                  salvar_contexto(@, s1.tempo, s1.endereco_pc).contexto_salvo]
        s3 == [s2 EXCEPT !.estatisticas["tempo_total_tratamento"] =
                             @ + s2.tempo_restante_tratamento]
        s4 == [s3 EXCEPT !.interrupcao_atual =
                             [nome |-> proxima.nome_dispositivo,
                              prioridade |-> proxima.tipo_prioridade,
                              tempo_chegada |-> proxima.tempo_chegada],
                         !.tempo_restante_tratamento = duracao]
        s5 == registrar_evento(s4, "INICIO", <<proxima.nome_dispositivo>>,
                               latencia(s4.tempo, proxima))
        s6 == registrar_evento(s5, "CONTEXTO", <<>>, s5.endereco_pc) IN
    registrar_evento(s6, "DURACAO", <<>>, s6.tempo_restante_tratamento)

\* processar_ciclo, step 3, "if proxima": start the service of proxima.
IniciarTratamento(s, proxima, duracao) ==
    LET s1 == [s EXCEPT !.estatisticas[proxima.nome_dispositivo] = @ + 1,
                        !.estatisticas["total_interrupcoes"] = @ + 1]
        s2 == [s1 EXCEPT !.contexto_salvo =
                  salvar_contexto(@, s1.tempo, s1.endereco_pc).contexto_salvo]
        s3 == [s2 EXCEPT !.interrupcao_atual =
                             [nome |-> proxima.nome_dispositivo,
                              prioridade |-> proxima.tipo_prioridade,
                              tempo_chegada |-> proxima.tempo_chegada],
                         !.tempo_restante_tratamento = duracao]
        s4 == [s3 EXCEPT !.estatisticas["tempo_total_tratamento"] =
                             @ + s3.tempo_restante_tratamento]
        s5 == registrar_evento(s4, "INICIO", <<proxima.nome_dispositivo>>,
                               latencia(s4.tempo, proxima))
        s6 == registrar_evento(s5, "CONTEXTO", <<>>, s5.endereco_pc) IN
    registrar_evento(s6, "DURACAO", <<>>, s6.tempo_restante_tratamento)

ProcessoPrincipalPcSoNoLog(s) ==
    LET s1 == IF s.ciclos_execucao_normal % 5 = 0
              THEN [registrar_evento(s, "PRINCIPAL", <<>>, s.endereco_pc)
                       EXCEPT !.endereco_pc = @ + 1]
              ELSE s IN
    [s1 EXCEPT !.ciclos_execucao_normal = @ + 1,
               !.estatisticas["ciclos_execucao_normal"] = @ + 1]

\* processar_ciclo, step 4: the main process runs one instruction.
ProcessoPrincipal(s) ==
    LET s1 == IF s.ciclos_execucao_normal % 5 = 0
              THEN registrar_evento(s, "PRINCIPAL", <<>>, s.endereco_pc)
              ELSE s IN
    [s1 EXCEPT !.endereco_pc = @ + 1,
               !.ciclos_execucao_normal = @ + 1,
               !.estatisticas["ciclos_execucao_normal"] = @ + 1]

FaseEscalonadorIgnoraUltimo(s, duracao) ==
    LET r == IF Len(s.fila) > 1 THEN proximo_interrupcao(s.fila)
             ELSE [fila |-> s.fila, valor |-> None]
        s1 == [s EXCEPT !.fila = r.fila] IN
    IF r.valor # None
    THEN IniciarTratamento(s1, r.valor, duracao)
    ELSE ProcessoPrincipal(s1)

\* processar_ciclo, step 3: pop the queue, then start a service or run the
\* main process.
FaseEscalonador(s, duracao) ==
    LET r == proximo_interrupcao(s.fila)
        s1 == [s EXCEPT !.fila = r.fila] IN
    IF r.valor # None
    THEN IniciarTratamento(s1, r.valor, duracao)
    ELSE ProcessoPrincipal(s1)

processar_ciclo_sem_return(s, sorteios, duracao) ==
    LET s1 == FaseChegada(s, sorteios) IN
    IF s1.tempo_restante_tratamento > 0
    THEN LET s2 == FaseTratamento(s1) IN
         IF s2.tempo_restante_tratamento = 0
         THEN FaseEscalonador(s2, duracao) ELSE s2
    ELSE FaseEscalonador(s1, duracao)

processar_ciclo_chegada_no_fim(s, sorteios, duracao) ==
    LET s1 == IF s.tempo_restante_tratamento > 0
              THEN FaseTratamento(s) ELSE FaseEscalonador(s, duracao) IN
    FaseChegada(s1, sorteios)

\* processar_ciclo(): sorteios are the outcomes of the arrival tests and
\* duracao the outcome of random.randint(2, 4).
processar_ciclo(s, sorteios, duracao) ==
    LET s1 == FaseChegada(s, sorteios) IN
    IF s1.tempo_restante_tratamento > 0
    THEN FaseTratamento(s1)
    ELSE FaseEscalonador(s1, duracao)

NumSorteados(sorteios) == Cardinality({i \in DOMAIN sorteios : sorteios[i]})

\* executar(): the first registrar_evento.
ExecutarInicio ==
    /\ fase = "init"
    /\ fase' = "laco"
    /\ log' = <<[tempo |-> tempo, tipo |-> "INIT", disp |-> <<>>, num |-> 0]>>
    /\ UNCHANGED <<fila, contexto_salvo, retorno, tempo, tempo_total,
                   prob_interrupcao, tempo_restante_tratamento, interrupcao_atual,
                   endereco_pc, ciclos_execucao_normal, estatisticas,
                   dispositivos_ativados>>

\* The body of executar's loop with the given random outcomes:
\* processar_ciclo(), then tempo += 1.
CorpoDoLaco(sorteios, duracao) ==
    /\ Len(fila) + NumSorteados(sorteios) <= MaxFila
    /\ \E s \in {processar_ciclo([Estado EXCEPT !.log = <<>>], sorteios, duracao)} :
        /\ fila' = s.fila
        /\ contexto_salvo' = s.contexto_salvo
        /\ tempo_restante_tratamento' = s.tempo_restante_tratamento
        /\ interrupcao_atual' = s.interrupcao_atual
        /\ endereco_pc' = s.endereco_pc
        /\ ciclos_execucao_normal' = s.ciclos_execucao_normal
        /\ estatisticas' = s.estatisticas
        /\ log' = s.log
        /\ dispositivos_ativados' = s.dispositivos_ativados
        /\ tempo' = s.tempo + 1
    /\ UNCHANGED <<retorno, tempo_total, prob_interrupcao, fase>>

\* executar(): one iteration of the while loop.
ExecutarCiclo ==
    /\ fase = "laco"
    /\ tempo < tempo_total
    /\ \E sorteios \in [1..Len(DISPOSITIVOS) -> Sorteio(prob_interrupcao)],
          duracao \in DuracaoMin..DuracaoMax :
        CorpoDoLaco(sorteios, duracao)

\* executar(): the loop has ended.
ExecutarFim ==
    /\ fase = "laco"
    /\ ~(tempo < tempo_total)
    /\ fase' = "fim"
    /\ log' = <<[tempo |-> tempo, tipo |-> "END", disp |-> <<>>, num |-> 0]>>
    /\ UNCHANGED <<fila, contexto_salvo, retorno, tempo, tempo_total,
                   prob_interrupcao, tempo_restante_tratamento, interrupcao_atual,
                   endereco_pc, ciclos_execucao_normal, estatisticas,
                   dispositivos_ativados>>

Next == ExecutarInicio \/ ExecutarCiclo \/ ExecutarFim

Spec == Init /\ [][Next]_vars

\* tempo_total of SimuladorIO() and of main()'s SimuladorIO(tempo_total=60).
TempoTotalPadrao == 50
TempoTotalMain == 60

\* SimuladorIO(tempo_total, prob_interrupcao=0) with either horizon.
InitSemChegadas ==
    /\ fila = <<>>
    /\ contexto_salvo = None
    /\ retorno = [op |-> "nenhuma", args |-> <<>>, valor |-> None, excecao |-> FALSE]
    /\ tempo = 0
    /\ tempo_total \in {TempoTotalPadrao, TempoTotalMain}
    /\ prob_interrupcao = 0
    /\ tempo_restante_tratamento = 0
    /\ interrupcao_atual = None
    /\ endereco_pc = 0
    /\ ciclos_execucao_normal = 0
    /\ estatisticas = [n \in NomesEstatisticas |-> 0]
    /\ log = <<>>
    /\ dispositivos_ativados = <<>>
    /\ fase = "init"

\* executar() of a simulator in which no device ever raises an interrupt.
SpecSemChegadas == InitSemChegadas /\ [][Next]_vars

\* Runs in which the devices raise no interrupt from tick CorteChegadas on
\* and the loop goes on for as many ticks as the services of a full queue
\* can take.
CorteChegadas == 3

TempoTotalDreno == CorteChegadas + (MaxFila + 1) * (DuracaoMax + 1)

InitDreno ==
    /\ fila = <<>>
    /\ contexto_salvo = None
    /\ retorno = [op |-> "nenhuma", args |-> <<>>, valor |-> None, excecao |-> FALSE]
    /\ tempo = 0
    /\ tempo_total = TempoTotalDreno
    /\ prob_interrupcao = 25
    /\ tempo_restante_tratamento = 0
    /\ interrupcao_atual = None
    /\ endereco_pc = 0
    /\ ciclos_execucao_normal = 0
    /\ estatisticas = [n \in NomesEstatisticas |-> 0]
    /\ log = <<>>
    /\ dispositivos_ativados = <<>>
    /\ fase = "init"

\* executar(): one iteration of the while loop, in which every arrival test
\* fails from tick CorteChegadas on.
ExecutarCicloDreno ==
    /\ fase = "laco"
    /\ tempo < tempo_total
    /\ \E sorteios \in [1..Len(DISPOSITIVOS) ->
                           IF tempo < CorteChegadas
                           THEN Sorteio(prob_interrupcao) ELSE {FALSE}],
          duracao \in DuracaoMin..DuracaoMax :
        CorpoDoLaco(sorteios, duracao)

NextDreno == ExecutarInicio \/ ExecutarCicloDreno \/ ExecutarFim

\* executar(): "while self.tempo < self.tempo_total: ... self.tempo += 1".
\* A step of NextDreno that changes tempo is a step of ExecutarCicloDreno,
\* which can be taken exactly when the loop condition holds.
AvancoDoLaco ==
    /\ fase = "laco"
    /\ tempo < tempo_total
    /\ tempo' = tempo + 1

\* The loop of executar is sequential code: it goes on while it can.
SpecDreno ==
    /\ InitDreno
    /\ [][NextDreno]_vars
    /\ WF_vars(ExecutarInicio)
    /\ WF_tempo(AvancoDoLaco)
    /\ WF_vars(ExecutarFim)

----------------------------------------------------------------------------
\* Properties of the scheduler (Spec)

\* The step is one iteration of executar's loop.
Passo == tempo' = tempo + 1

TemEvento(l, tipo) == \E i \in 1..Len(l) : l[i].tipo = tipo

TotalInterrupcoes == estatisticas["total_interrupcoes"]

\* Every record of f is in g.
Contida(f, g) == \A i \in 1..Len(f) : \E j \in 1..Len(g) : g[j] = f[i]

\* C6: in every run of executar, the step that saves a context (the one that
\* reports the start of a service) finds the slot empty and leaves it holding
\* a context with status 'salvo'; the step that restores (the one that
\* reports the end of a service) finds the slot occupied and leaves it empty;
\* no step does both and no other step changes the slot.  The slot is empty
\* at the start, so saves and restores alternate, starting with a save.
C6_SalvaRestauraAlternam ==
    [][ Passo =>
          /\ TemEvento(log', "CONTEXTO") =>
                /\ contexto_salvo = None
                /\ contexto_salvo' # None
                /\ contexto_salvo'.status = "salvo"
          /\ TemEvento(log', "OK") =>
                /\ contexto_salvo # None
                /\ contexto_salvo' = None
          /\ ~(TemEvento(log', "CONTEXTO") /\ TemEvento(log', "OK"))
          /\ (~TemEvento(log', "CONTEXTO") /\ ~TemEvento(log', "OK")) =>
                contexto_salvo' = contexto_salvo ]_vars

\* A second service has started: a save that follows a save and a restore.
C6_Witness ==
    /\ TotalInterrupcoes >= 2
    /\ contexto_salvo # None
    /\ TemEvento(log, "CONTEXTO")

\* C7: every step is exactly one of: the continuation of the service in
\* progress (which may complete it), the start of a service, one instruction
\* of the main process.  A continuation decrements the remaining ticks, pops
\* nothing (the queue only gains this tick's arrivals) and starts no service,
\* also when it completes the service with interrupts pending.
C7_UmaTransicaoPorPasso ==
    [][ Passo =>
          LET continuou == TemEvento(log', "CONTINUANDO")
              iniciou == TemEvento(log', "INICIO")
              principal == ciclos_execucao_normal' = ciclos_execucao_normal + 1 IN
          /\ continuou \/ iniciou \/ principal
          /\ ~(continuou /\ iniciou)
          /\ ~(continuou /\ principal)
          /\ ~(iniciou /\ principal)
          /\ continuou =>
                /\ tempo_restante_tratamento > 0
                /\ tempo_restante_tratamento' = tempo_restante_tratamento - 1
                /\ Len(fila') = Len(fila) + Len(dispositivos_ativados')
                /\ Contida(fila, fila')
                /\ TotalInterrupcoes' = TotalInterrupcoes
                /\ endereco_pc' = endereco_pc
                /\ IF tempo_restante_tratamento' = 0
                   THEN interrupcao_atual' = None /\ contexto_salvo' = None
                   ELSE /\ interrupcao_atual' = interrupcao_atual
                        /\ contexto_salvo' = contexto_salvo
          /\ iniciou =>
                /\ tempo_restante_tratamento = 0
                /\ tempo_restante_tratamento' \in DuracaoMin..DuracaoMax
                /\ Len(fila') = Len(fila) + Len(dispositivos_ativados') - 1
                /\ TotalInterrupcoes' = TotalInterrupcoes + 1
                /\ endereco_pc' = endereco_pc
          /\ principal =>
                /\ tempo_restante_tratamento = 0
                /\ tempo_restante_tratamento' = 0
                /\ fila' = <<>>
                /\ TotalInterrupcoes' = TotalInterrupcoes
                /\ contexto_salvo' = contexto_salvo
                /\ endereco_pc' = endereco_pc + 1 ]_vars

\* A step has completed a service while interrupts were pending: the
\* scheduler is idle, the slot is empty and the queue is not.
C7_Witness ==
    /\ TemEvento(log, "OK")
    /\ tempo_restante_tratamento = 0
    /\ interrupcao_atual = None
    /\ contexto_salvo = None
    /\ fila # <<>>

\* C8: the latency reported at every service start is >= 0, and every
\* pending record (and the record in service) has an arrival tick that is at
\* most the current simulated time.
C8_LatenciaNaoNegativa ==
    /\ \A i \in 1..Len(log) : log[i].tipo = "INICIO" => log[i].num >= 0
    /\ \A i \in 1..Len(fila) : fila[i].tempo_chegada <= tempo
    /\ interrupcao_atual # None => interrupcao_atual.tempo_chegada <= tempo

\* A service has started for a record that had waited, with others pending.
C8_Witness ==
    /\ \E i \in 1..Len(log) : log[i].tipo = "INICIO" /\ log[i].num >= 2
    /\ fila # <<>>

DiscoEm(t) == Interrupcao(BAIXA, t, "Disco", "Baixa")

\* The step at tick 5 is taken idle with an empty queue and Disco is its
\* only arrival.
CenarioB ==
    /\ Passo
    /\ tempo = 5
    /\ tempo_restante_tratamento = 0
    /\ fila = <<>>
    /\ dispositivos_ativados' = <<"Disco">>

\* C9 as stated: in scenario B the step at tick 5 admits Disco and leaves the
\* start of its service to the next step: after the step at tick 5 the
\* record is pending and the scheduler idle, and the step at tick 6 taken
\* from there with no arrival starts the service of Disco with latency 1.
C9_Original ==
    /\ [][ CenarioB =>
             /\ fila' = <<DiscoEm(5)>>
             /\ tempo_restante_tratamento' = 0 ]_vars
    /\ [][ (Passo /\ tempo = 6 /\ tempo_restante_tratamento = 0
               /\ fila = <<DiscoEm(5)>> /\ dispositivos_ativados' = <<>>) =>
             /\ interrupcao_atual'.nome = "Disco"
             /\ \E i \in 1..Len(log') :
                   log'[i].tipo = "INICIO" /\ log'[i].num = 1 ]_vars

\* C9 amended: in scenario B the step at tick 5 admits Disco and starts its
\* service in the same step, with latency 0: after the step the queue is
\* empty, Disco (arrival tick 5) is in service for 2 to 4 ticks and the
\* context saved at tick 5 is stored.
C9_InicioNoMesmoPasso ==
    [][ CenarioB =>
          /\ fila' = <<>>
          /\ interrupcao_atual' =
                [nome |-> "Disco", prioridade |-> "Baixa", tempo_chegada |-> 5]
          /\ tempo_restante_tratamento' \in DuracaoMin..DuracaoMax
          /\ contexto_salvo' # None
          /\ contexto_salvo'.tempo_interrupcao = 5
          /\ \E i \in 1..Len(log') :
                /\ log'[i].tipo = "INICIO"
                /\ log'[i].disp = <<"Disco">>
                /\ log'[i].tempo = 5
                /\ log'[i].num = 0 ]_vars

\* The state after the step at tick 5 of scenario B.
C9_Witness ==
    /\ tempo = 6
    /\ dispositivos_ativados = <<"Disco">>
    /\ fila = <<>>
    /\ interrupcao_atual # None
    /\ interrupcao_atual.nome = "Disco"
    /\ interrupcao_atual.tempo_chegada = 5
    /\ TotalInterrupcoes = 1

Ativado(ativados, nome) == \E i \in 1..Len(ativados) : ativados[i] = nome

\* atual is the service of the record of device nome that arrived at t.
TratamentoDe(atual, nome, t) ==
    /\ atual # None
    /\ atual.nome = nome
    /\ atual.tempo_chegada = t

\* C10: when a step taken idle with an empty queue admits Teclado and Disco,
\* it reports the simultaneous arrival, the service it starts is Teclado's
\* and Disco stays pending; and Disco stays pending through every step taken
\* while that service of Teclado is in progress, the completing one included,
\* so that Disco's service starts at a later tick than the completion.
C10_TecladoAntesDeDisco ==
    /\ [][ (Passo /\ tempo_restante_tratamento = 0 /\ fila = <<>>
               /\ Ativado(dispositivos_ativados', "Teclado")
               /\ Ativado(dispositivos_ativados', "Disco")) =>
             /\ \E i \in 1..Len(log') :
                   /\ log'[i].tipo = "MULTIPLAS"
                   /\ log'[i].disp = dispositivos_ativados'
             /\ estatisticas'["casos_prioridade_testados"] =
                   estatisticas["casos_prioridade_testados"] + 1
             /\ TratamentoDe(interrupcao_atual', "Teclado", tempo)
             /\ \E i \in 1..Len(log') :
                   log'[i].tipo = "INICIO" /\ log'[i].disp = <<"Teclado">>
             /\ Pendente(fila', tempo, "Disco") ]_vars
    /\ [][ \A t \in 0..tempo :
             (Passo /\ TratamentoDe(interrupcao_atual, "Teclado", t)
                    /\ Pendente(fila, t, "Disco")) =>
                /\ Pendente(fila', t, "Disco")
                /\ ~TemEvento(log', "INICIO")
                /\ \/ TratamentoDe(interrupcao_atual', "Teclado", t)
                   \/ tempo_restante_tratamento' = 0 /\ contexto_salvo' = None ]_vars

\* Teclado's service has completed and the Disco that arrived with it is
\* still pending.
C10_Witness ==
    /\ TemEvento(log, "OK")
    /\ contexto_salvo = None
    /\ tempo_restante_tratamento = 0
    /\ estatisticas["Teclado"] = 1
    /\ estatisticas["casos_prioridade_testados"] = 1
    /\ TotalInterrupcoes = 1
    /\ \E t \in 0..tempo : fila = <<DiscoEm(t)>>

\* The priority rank of the registry's device called nome.
PrioridadeDe(nome) ==
    DISPOSITIVOS[CHOOSE i \in 1..Len(DISPOSITIVOS) :
                    DISPOSITIVOS[i].nome = nome].prioridade

\* The name of the device whose service the step that produced l continued.
Continuado(l) == l[CHOOSE i \in 1..Len(l) : l[i].tipo = "CONTINUANDO"].disp[1]

\* A step taken while a service is in progress leaves the device in service
\* as it is, or completes the service; its arrivals are left pending.
SemPreempcao ==
    (Passo /\ tempo_restante_tratamento > 0) =>
        /\ ~TemEvento(log', "INICIO")
        /\ \A i \in 1..Len(dispositivos_ativados') :
              Pendente(fila', tempo, dispositivos_ativados'[i])
        /\ IF tempo_restante_tratamento = 1
           THEN /\ tempo_restante_tratamento' = 0
                /\ TemEvento(log', "OK")
                /\ interrupcao_atual' = None
           ELSE /\ tempo_restante_tratamento' > 0
                /\ interrupcao_atual' = interrupcao_atual

\* The state left by a step that completed a service.
AposConclusao ==
    /\ tempo_restante_tratamento = 0
    /\ TemEvento(log, "OK")

\* C11 as stated: a step taken in service never changes the device in
\* service; with 1 remaining tick it completes the service and leaves a
\* higher-priority arrival pending; and the step that follows the completion
\* starts the service of that arrival.
C11_Original ==
    /\ [][SemPreempcao]_vars
    /\ [][ (Passo /\ AposConclusao) =>
             \A i \in 1..Len(dispositivos_ativados) :
                PrioridadeDe(dispositivos_ativados[i]) < PrioridadeDe(Continuado(log)) =>
                   TratamentoDe(interrupcao_atual', dispositivos_ativados[i],
                                tempo - 1) ]_vars

\* C11 amended: as stated, except that the step that follows the completion
\* starts the service of the record that is first in (priority rank, arrival
\* tick) among the pending records and that step's arrivals: the head of the
\* queue, unless a device of higher priority than the head arrives in that
\* step, which is then served while the head stays pending.  The new
\* interrupt is the one started when it is that record.
C11_SemPreempcao ==
    /\ [][SemPreempcao]_vars
    /\ [][ (Passo /\ AposConclusao /\ fila # <<>>) =>
             /\ TemEvento(log', "INICIO")
             /\ IF \E i \in 1..Len(dispositivos_ativados') :
                      PrioridadeDe(dispositivos_ativados'[i]) < Head(fila).prioridade
                THEN /\ interrupcao_atual'.tempo_chegada = tempo
                     /\ PrioridadeDe(interrupcao_atual'.nome) < Head(fila).prioridade
                     /\ Pendente(fila', Head(fila).tempo_chegada,
                                 Head(fila).nome_dispositivo)
                ELSE TratamentoDe(interrupcao_atual', Head(fila).nome_dispositivo,
                                  Head(fila).tempo_chegada) ]_vars

\* A service with 1 remaining tick has completed in a step in which a device
\* of higher priority arrived, and that arrival is pending.
C11_Witness ==
    /\ AposConclusao
    /\ interrupcao_atual = None
    /\ \E i \in 1..Len(dispositivos_ativados) :
          /\ PrioridadeDe(dispositivos_ativados[i]) < PrioridadeDe(Continuado(log))
          /\ Pendente(fila, tempo - 1, dispositivos_ativados[i])

\* C13: a step taken idle with an empty queue and no arrival is a
\* main-process step: the program counter and the count of normal cycles
\* advance by exactly 1, no context is saved, no service starts, the queue
\* stays empty and the scheduler stays idle; the step is reported when the
\* count of normal cycles before it is a multiple of 5.
C13_CenarioA ==
    [][ (Passo /\ tempo_restante_tratamento = 0 /\ fila = <<>>
            /\ dispositivos_ativados' = <<>>) =>
          /\ endereco_pc' = endereco_pc + 1
          /\ ciclos_execucao_normal' = ciclos_execucao_normal + 1
          /\ estatisticas' = [estatisticas EXCEPT !["ciclos_execucao_normal"] = @ + 1]
          /\ contexto_salvo = None
          /\ contexto_salvo' = None
          /\ fila' = <<>>
          /\ tempo_restante_tratamento' = 0
          /\ interrupcao_atual' = None
          /\ log' = IF ciclos_execucao_normal % 5 = 0
                    THEN <<[tempo |-> tempo, tipo |-> "PRINCIPAL", disp |-> <<>>,
                            num |-> endereco_pc]>>
                    ELSE <<>> ]_vars

\* A main-process step has been taken after a service: no event was due, the
\* scheduler is idle with an empty queue.
C13_Witness ==
    /\ fase = "laco"
    /\ log = <<>>
    /\ dispositivos_ativados = <<>>
    /\ fila = <<>>
    /\ tempo_restante_tratamento = 0
    /\ contexto_salvo = None
    /\ TotalInterrupcoes >= 1
    /\ endereco_pc >= 2

\* The pc of the context restored by the step that produced l.
PcRestaurado(l) == l[CHOOSE i \in 1..Len(l) : l[i].tipo = "OK"].num

\* C14: the main process is resumed at the restored pc + 1: a main-process
\* step that is the first one after a completion (here, the step right after
\* it) runs with the program counter equal to the restored value plus one.
C14_RetomaEmPcMaisUm ==
    [][ (Passo /\ AposConclusao
            /\ ciclos_execucao_normal' = ciclos_execucao_normal + 1) =>
          endereco_pc = PcRestaurado(log) + 1 ]_vars

\* C15: at every tick boundary the slot is occupied exactly when a service
\* is in progress: contexto_salvo is set iff tempo_restante_tratamento > 0
\* iff interrupcao_atual is set; the remaining ticks are 0 (Idle) or between
\* 1 and 4 (Servicing), and a stored context has status 'salvo'.
C15_SlotOcupadoSseTratando ==
    /\ (contexto_salvo # None) <=> (tempo_restante_tratamento > 0)
    /\ (interrupcao_atual # None) <=> (tempo_restante_tratamento > 0)
    /\ tempo_restante_tratamento \in 0..4
    /\ contexto_salvo # None => contexto_salvo.status = "salvo"

\* A service with the longest duration has just started, with a record
\* pending.
C15_Witness ==
    /\ tempo_restante_tratamento = 4
    /\ contexto_salvo # None
    /\ interrupcao_atual # None
    /\ fila # <<>>

\* C16: the step that starts a service stores the context made of the
\* program counter at the interruption and the tick of the start, with
\* status 'salvo'; every step of the service leaves the program counter
\* and, until the last one, the stored context unchanged; the completing
\* step restores that very context, tagged 'restaurado' (its pc is the one
\* reported, and the program counter still has that value), and empties the
\* slot.
C16_ContextoRestauradoEOSalvo ==
    /\ [][ (Passo /\ TemEvento(log', "INICIO")) =>
             /\ contexto_salvo' =
                   [tempo_interrupcao |-> tempo, pc |-> endereco_pc,
                    registradores |-> [A |-> 0, B |-> 0, C |-> 0],
                    status |-> "salvo"]
             /\ endereco_pc' = endereco_pc ]_vars
    /\ [][ (Passo /\ tempo_restante_tratamento > 0) =>
             /\ endereco_pc' = endereco_pc
             /\ contexto_salvo.pc = endereco_pc
             /\ contexto_salvo.tempo_interrupcao < tempo
             /\ IF tempo_restante_tratamento' > 0
                THEN contexto_salvo' = contexto_salvo
                ELSE LET r == restaurar_contexto(contexto_salvo) IN
                     /\ r.valor.status = "restaurado"
                     /\ r.valor.pc = contexto_salvo.pc
                     /\ r.valor.tempo_interrupcao = contexto_salvo.tempo_interrupcao
                     /\ contexto_salvo' = r.contexto_salvo
                     /\ contexto_salvo' = None
                     /\ PcRestaurado(log') = contexto_salvo.pc ]_vars

\* A service that interrupted the main process after some instructions has
\* completed.
C16_Witness ==
    /\ AposConclusao
    /\ contexto_salvo = None
    /\ PcRestaurado(log) >= 1
    /\ endereco_pc = PcRestaurado(log)

\* The names of the devices drawn by sorteios, in registry order.
RECURSIVE SorteadosDesde(_, _)
SorteadosDesde(sorteios, i) ==
    IF i > Len(DISPOSITIVOS) THEN <<>>
    ELSE (IF sorteios[i] THEN <<DISPOSITIVOS[i].nome>> ELSE <<>>)
            \o SorteadosDesde(sorteios, i + 1)

\* C17: in every step, idle or servicing, the multiple-simultaneous event is
\* emitted (listing the admitted devices) and casos_prioridade_testados is
\* incremented by one iff more than one device was admitted in the step's
\* arrival phase.  Every device drawn in a tick is admitted, and after the
\* arrival phase the queue holds a record for each of them beside the
\* records it held; at the end of the step each of them is pending or is
\* the one whose service the step started.
C17_SimultaneasReportadas ==
    /\ [](fase = "laco" =>
            \A sorteios \in [1..Len(DISPOSITIVOS) -> BOOLEAN] :
               LET s1 == FaseChegada([Estado EXCEPT !.log = <<>>], sorteios) IN
               /\ s1.dispositivos_ativados = SorteadosDesde(sorteios, 1)
               /\ Len(s1.fila) = Len(fila) + Len(s1.dispositivos_ativados)
               /\ Contida(fila, s1.fila)
               /\ \A i \in 1..Len(s1.dispositivos_ativados) :
                     Pendente(s1.fila, tempo, s1.dispositivos_ativados[i])
               /\ TemEvento(s1.log, "MULTIPLAS") <=>
                     Len(s1.dispositivos_ativados) > 1)
    /\ [][ Passo =>
             /\ TemEvento(log', "MULTIPLAS") <=> Len(dispositivos_ativados') > 1
             /\ \A i \in 1..Len(log') :
                   log'[i].tipo = "MULTIPLAS" => log'[i].disp = dispositivos_ativados'
             /\ estatisticas'["casos_prioridade_testados"] =
                   estatisticas["casos_prioridade_testados"]
                      + (IF Len(dispositivos_ativados') > 1 THEN 1 ELSE 0)
             /\ \A i \in 1..Len(dispositivos_ativados') :
                   \/ Pendente(fila', tempo, dispositivos_ativados'[i])
                   \/ /\ TemEvento(log', "INICIO")
                      /\ TratamentoDe(interrupcao_atual',
                                      dispositivos_ativados'[i], tempo) ]_vars

\* Two devices were admitted in a step taken while servicing: the event was
\* emitted and both are pending.
C17_Witness ==
    /\ TemEvento(log, "MULTIPLAS")
    /\ TemEvento(log, "CONTINUANDO")
    /\ Len(dispositivos_ativados) = 2
    /\ Len(fila) = 2
    /\ estatisticas["casos_prioridade_testados"] >= 1

\* C18: every admitted record is handed to service at most once and is
\* never lost.  Each step adds its admissions to (services started + queue
\* length), which are both 0 at the start, so that at every tick boundary
\* admissions = total_interrupcoes + queue length; a pending record stays
\* pending or is the one whose service the step starts, and the started
\* record is no longer pending; total_interrupcoes is the sum of the three
\* per-device counters.
C18_AdmitidasIgualTratadasMaisFila ==
    /\ [](TotalInterrupcoes = estatisticas["Teclado"] + estatisticas["Impressora"]
                                + estatisticas["Disco"])
    /\ [](fase = "init" => TotalInterrupcoes + Len(fila) = 0)
    /\ []SemDuplicata(fila)
    /\ [][ Passo =>
             /\ TotalInterrupcoes' + Len(fila') =
                   TotalInterrupcoes + Len(fila) + Len(dispositivos_ativados')
             /\ TotalInterrupcoes' - TotalInterrupcoes =
                   (IF TemEvento(log', "INICIO") THEN 1 ELSE 0)
             /\ \A i \in 1..Len(fila) :
                   \/ Pendente(fila', fila[i].tempo_chegada, fila[i].nome_dispositivo)
                   \/ /\ TemEvento(log', "INICIO")
                      /\ TratamentoDe(interrupcao_atual', fila[i].nome_dispositivo,
                                      fila[i].tempo_chegada)
             /\ TemEvento(log', "INICIO") =>
                   /\ ~Pendente(fila', interrupcao_atual'.tempo_chegada,
                                interrupcao_atual'.nome)
                   /\ estatisticas'[interrupcao_atual'.nome] =
                         estatisticas[interrupcao_atual'.nome] + 1 ]_vars

\* Services of two different devices have started and a record is pending.
C18_Witness ==
    /\ estatisticas["Teclado"] >= 1
    /\ estatisticas["Disco"] >= 1
    /\ fila # <<>>

\* The duration reported by the step that produced l.
DuracaoSorteada(l) == l[CHOOSE i \in 1..Len(l) : l[i].tipo = "DURACAO"].num

\* C19: at every tick boundary tempo = ciclos_execucao_normal +
\* total_interrupcoes + (tempo_total_tratamento - tempo_restante_tratamento)
\* and endereco_pc = ciclos_execucao_normal.  The step that starts a service
\* at tick t draws a duration d in 2..4, adds it to tempo_total_tratamento
\* and leaves d ticks remaining; each of the following steps subtracts
\* exactly one and starts no service, and the one that finds 1 remaining, at
\* tick t + d, is the one that completes the service (for the first service
\* of a run d is tempo_total_tratamento, which gives the tick directly).
C19_ContabilidadeDeTicks ==
    /\ [](/\ tempo = ciclos_execucao_normal + TotalInterrupcoes
                       + (estatisticas["tempo_total_tratamento"]
                             - tempo_restante_tratamento)
          /\ endereco_pc = ciclos_execucao_normal
          /\ estatisticas["ciclos_execucao_normal"] = ciclos_execucao_normal
          /\ contexto_salvo # None =>
                (tempo - 1 - contexto_salvo.tempo_interrupcao)
                    + tempo_restante_tratamento \in DuracaoMin..DuracaoMax)
    /\ [][ (Passo /\ TemEvento(log', "INICIO")) =>
             /\ DuracaoSorteada(log') \in DuracaoMin..DuracaoMax
             /\ tempo_restante_tratamento' = DuracaoSorteada(log')
             /\ estatisticas'["tempo_total_tratamento"] =
                   estatisticas["tempo_total_tratamento"] + DuracaoSorteada(log')
             /\ contexto_salvo'.tempo_interrupcao = tempo ]_vars
    /\ [][ (Passo /\ tempo_restante_tratamento > 0) =>
             /\ tempo_restante_tratamento' = tempo_restante_tratamento - 1
             /\ ~TemEvento(log', "INICIO")
             /\ TemEvento(log', "OK") <=> tempo_restante_tratamento = 1
             /\ (tempo_restante_tratamento = 1 /\ TotalInterrupcoes = 1) =>
                   tempo = contexto_salvo.tempo_interrupcao
                              + estatisticas["tempo_total_tratamento"]
             /\ tempo_restante_tratamento' > 0 =>
                   contexto_salvo'.tempo_interrupcao = contexto_salvo.tempo_interrupcao
             /\ estatisticas'["tempo_total_tratamento"] =
                   estatisticas["tempo_total_tratamento"] ]_vars

\* A service of duration 4 that started at tick 1 has completed at tick 5.
C19_Witness ==
    /\ AposConclusao
    /\ tempo = 6
    /\ estatisticas["tempo_total_tratamento"] = 4
    /\ TotalInterrupcoes = 1
    /\ ciclos_execucao_normal = 1

----------------------------------------------------------------------------
\* Properties of a run without arrivals (SpecSemChegadas)

\* C12: in a run with arrival probability 0 the queue is empty at every
\* tick, no context is ever saved and no interrupt is serviced; every tick is
\* a main-process instruction, and the run of 50 ticks ends with the program
\* counter equal to exactly 50.
C12_CenarioE ==
    /\ fila = <<>>
    /\ contexto_salvo = None
    /\ ~TemEvento(log, "CONTEXTO")
    /\ tempo_restante_tratamento = 0
    /\ TotalInterrupcoes = 0
    /\ estatisticas["Teclado"] + estatisticas["Impressora"] + estatisticas["Disco"] = 0
    /\ endereco_pc = tempo
    /\ (fase = "fim" /\ tempo_total = TempoTotalPadrao) => endereco_pc = 50

\* The run of 50 ticks has ended.
C12_Witness ==
    /\ fase = "fim"
    /\ tempo_total = TempoTotalPadrao
    /\ tempo = 50
    /\ endereco_pc = 50

----------------------------------------------------------------------------
\* Properties of runs whose arrivals stop (SpecDreno)

Ocioso ==
    /\ tempo_restante_tratamento = 0
    /\ fila = <<>>
    /\ contexto_salvo = None

\* C20: when no device raises an interrupt from tick CorteChegadas on and
\* the loop keeps stepping, the system eventually reaches and stays idle with
\* an empty queue and an empty slot; a record pending at or after that tick
\* leaves the queue only in the step that starts its service, so that every
\* such record eventually starts service; and every step taken idle with an
\* empty queue from that tick on is a main-process instruction that leaves
\* the system so.
C20_Dreno ==
    /\ <>[]Ocioso
    /\ [][ (Passo /\ tempo >= CorteChegadas) =>
             \A i \in 1..Len(fila) :
                \/ Pendente(fila', fila[i].tempo_chegada, fila[i].nome_dispositivo)
                \/ /\ TemEvento(log', "INICIO")
                   /\ TratamentoDe(interrupcao_atual', fila[i].nome_dispositivo,
                                   fila[i].tempo_chegada) ]_vars
    /\ [][ (Passo /\ tempo >= CorteChegadas /\ Ocioso) =>
             /\ ciclos_execucao_normal' = ciclos_execucao_normal + 1
             /\ endereco_pc' = endereco_pc + 1
             /\ ~TemEvento(log', "INICIO")
             /\ Ocioso' ]_vars

\* After the arrivals stopped with a full queue behind a service, the last
\* pending record has been taken into service.
C20_Witness ==
    /\ tempo > CorteChegadas
    /\ fila = <<>>
    /\ interrupcao_atual # None
    /\ contexto_salvo # None
    /\ contexto_salvo.tempo_interrupcao > CorteChegadas
    /\ TotalInterrupcoes >= 3

====
